---- MODULE Spec2Model ----
(***************************************************************************)
(* Least Squares Monte Carlo pricing of a Bermudan put                     *)
(* (src/LSMC_with_TensorFlow.ipynb).                                       *)
(*                                                                         *)
(* Numbers.  A tensor entry is a pair <<num, den>>: den > 0 is the exact   *)
(* rational num/den in lowest terms, <<1,0>> is +Inf, <<-1,0>> is -Inf and *)
(* <<0,0>> is NaN, with the IEEE-754 rules for the special values (signed  *)
(* zeros and rounding are not modelled).  A vector is a sequence of        *)
(* entries, a matrix a sequence of rows.                                   *)
(***************************************************************************)
EXTENDS Integers, Sequences, FiniteSets, TLC

\* ------------------------------------------------------------------ bounds
MaxPaths == 2
MaxSteps == 3
MaxOrder == 3
MaxCols == 3

\* ------------------------------------------------------- float arithmetic
NaN == <<0, 0>>
PInf == <<1, 0>>
NInf == <<-1, 0>>

Abs(a) == IF a < 0 THEN -a ELSE a

Sgn(a) == IF a < 0 THEN -1 ELSE IF a > 0 THEN 1 ELSE 0

RECURSIVE GCD(_, _)
GCD(a, b) == IF b = 0 THEN a ELSE GCD(b, a % b)

Norm(a, b) ==
    LET g == GCD(Abs(a), Abs(b))
    IN  IF b < 0 THEN <<(-a) \div g, (-b) \div g>> ELSE <<a \div g, b \div g>>

F(a) == <<a, 1>>

IsNaN(x) == x = NaN
IsInf(x) == x[2] = 0 /\ x[1] # 0
IsFin(x) == x[2] # 0
IsZero(x) == x[2] # 0 /\ x[1] = 0

FNeg(x) == <<-x[1], x[2]>>

FAdd(x, y) ==
    IF IsNaN(x) \/ IsNaN(y) THEN NaN
    ELSE IF IsInf(x) THEN (IF IsInf(y) /\ y # x THEN NaN ELSE x)
    ELSE IF IsInf(y) THEN y
    ELSE LET l == (x[2] \div GCD(x[2], y[2])) * y[2]
         IN  Norm(x[1] * (l \div x[2]) + y[1] * (l \div y[2]), l)

FSub(x, y) == FAdd(x, FNeg(y))

FMul(x, y) ==
    IF IsNaN(x) \/ IsNaN(y) THEN NaN
    ELSE IF IsInf(x) \/ IsInf(y)
         THEN (IF IsZero(x) \/ IsZero(y) THEN NaN ELSE <<Sgn(x[1]) * Sgn(y[1]), 0>>)
    ELSE IF x[1] = 0 \/ y[1] = 0 THEN F(0)
    ELSE LET g1 == GCD(Abs(x[1]), y[2])
             g2 == GCD(Abs(y[1]), x[2])
         IN  <<(x[1] \div g1) * (y[1] \div g2), (x[2] \div g2) * (y[2] \div g1)>>

FDiv(x, y) ==
    IF IsNaN(x) \/ IsNaN(y) THEN NaN
    ELSE IF IsInf(y) THEN (IF IsInf(x) THEN NaN ELSE F(0))
    ELSE IF IsZero(y) THEN (IF IsZero(x) THEN NaN ELSE <<Sgn(x[1]), 0>>)
    ELSE IF IsInf(x) THEN <<Sgn(x[1]) * Sgn(y[1]), 0>>
    ELSE FMul(x, Norm(y[2] * Sgn(y[1]), Abs(y[1])))

\* x > y; every comparison with NaN is false
FGreater(x, y) ==
    IF IsNaN(x) \/ IsNaN(y) \/ x = y THEN FALSE
    ELSE IF x = PInf \/ y = NInf THEN TRUE
    ELSE IF x = NInf \/ y = PInf THEN FALSE
    ELSE x[1] * y[2] > y[1] * x[2]

FLess(x, y) == FGreater(y, x)

FMaximum(x, y) == IF IsNaN(x) \/ IsNaN(y) THEN NaN ELSE IF FGreater(y, x) THEN y ELSE x

FMinimum(x, y) == IF IsNaN(x) \/ IsNaN(y) THEN NaN ELSE IF FGreater(x, y) THEN y ELSE x

RECURSIVE Pow2(_)
Pow2(k) == IF k = 0 THEN 1 ELSE 2 * Pow2(k - 1)

\* tf.exp at the arguments the program uses, the integers -k (k >= 0).  The
\* base 2 stands for e: Exp(a + b) = Exp(a) * Exp(b) and 0 < Exp(-k) < 1 for
\* k > 0 are kept, the irrational value is not.
Exp(x) == <<1, Pow2(-x[1])>>

\* ------------------------------------------------------------ tensor helpers
RECURSIVE SumSeq(_)
SumSeq(s) == IF s = <<>> THEN F(0) ELSE FAdd(s[1], SumSeq(Tail(s)))

RECURSIVE MinSeq(_)
MinSeq(s) == IF Len(s) = 1 THEN s[1] ELSE FMinimum(s[1], MinSeq(Tail(s)))

RECURSIVE MaxSeq(_)
MaxSeq(s) == IF Len(s) = 1 THEN s[1] ELSE FMaximum(s[1], MaxSeq(Tail(s)))

Ones(cnt) == [j \in 1..cnt |-> F(1)]

Zeros(cnt) == [j \in 1..cnt |-> F(0)]

\* column c (0-based, as the code indexes) of a row
Col(row, c) == row[c + 1]

NRows(X) == Len(X)

NCols(X) == Len(X[1])

\* X @ beta
MatVec(X, beta) ==
    [j \in 1..NRows(X) |-> SumSeq([c \in 1..NCols(X) |-> FMul(X[j][c], beta[c])])]

HasNaN(X) == \E j \in 1..NRows(X) : \E c \in 1..NCols(X) : ~IsFin(X[j][c])

\* ------------------------------------------------------- auxiliary functions
\* the dictionary B of chebyshev_basis as the list of its values for the keys
\* 0..c: B[0] = ones_like(x), B[1] = x, B[c] = 2 * x * B[c-1] - B[c-2]
RECURSIVE ChebB(_, _)
ChebB(x, c) ==
    IF c = 0 THEN <<Ones(Len(x))>>
    ELSE IF c = 1 THEN <<Ones(Len(x)), x>>
    ELSE LET B == ChebB(x, c - 1)
         IN  Append(B, [j \in 1..Len(x) |->
                FSub(FMul(FMul(F(2), x[j]), B[c][j]), B[c - 1][j])])

\* the keys of B: 0 and 1 are always set, range(2, k) adds 2..k-1
ChebKeys(k) == {0, 1} \cup 2..(k - 1)

\* tf.stack(list(B.values()), axis=1): one row per entry of x, one column per key
chebyshev_basis(x, k) ==
    LET B == ChebB(x, Cardinality(ChebKeys(k)) - 1)
    IN  [j \in 1..Len(x) |-> [c \in 1..Len(B) |-> B[c][j]]]

\* square matrix A without row 1 and column c
Minor(A, c) ==
    [i \in 1..(Len(A) - 1) |->
        [j \in 1..(Len(A) - 1) |-> IF j < c THEN A[i + 1][j] ELSE A[i + 1][j + 1]]]

RECURSIVE Det(_)
Det(A) ==
    IF Len(A) = 1 THEN A[1][1]
    ELSE SumSeq([c \in 1..Len(A) |->
            FMul(IF c % 2 = 1 THEN A[1][c] ELSE FNeg(A[1][c]), Det(Minor(A, c)))])

\* the solution of the square system A z = b (Cramer's rule)
Solve(A, b) ==
    LET d == Det(A)
    IN  [c \in 1..Len(A) |->
            FDiv(Det([i \in 1..Len(A) |->
                        [j \in 1..Len(A) |-> IF j = c THEN b[i] ELSE A[i][j]]]), d)]

\* tf.linalg.lstsq(X, Y, l2_regularizer=l2): the minimiser of
\* ||X z - Y||^2 + l2 ||z||^2, the solution of (X'X + l2 I) z = X'Y
lstsq(X, Y, l2) ==
    LET p == NCols(X)
        A == [a \in 1..p |-> [b \in 1..p |->
                FAdd(SumSeq([j \in 1..NRows(X) |-> FMul(X[j][a], X[j][b])]),
                     IF a = b THEN F(l2) ELSE F(0))]]
        v == [a \in 1..p |-> SumSeq([j \in 1..NRows(X) |-> FMul(X[j][a], Y[j])])]
    IN  Solve(A, v)

\* ridge_regression(X, Y, lam): the penalty handed to lstsq is the literal 100
ridge_regression(X, Y, lam) == MatVec(X, lstsq(X, Y, 100))

\* tf.cumprod along a row
RECURSIVE CumProd(_)
CumProd(s) ==
    IF Len(s) <= 1 THEN s
    ELSE LET h == CumProd(SubSeq(s, 1, Len(s) - 1))
         IN  Append(h, FMul(h[Len(h)], s[Len(s)]))

\* first_one_row without the mask of the columns before: every positive entry is kept
first_one_row_unmasked(original) ==
    [c \in 1..Len(original) |->
        IF FGreater(original[c], F(0)) THEN original[c] ELSE F(0)]

\* first_one_row with "lag + x" for "lag * x"
first_one_row_added(original) ==
    LET x == [c \in 1..Len(original) |->
                IF FGreater(original[c], F(0)) THEN F(1) ELSE F(0)]
        x_not == [c \in 1..Len(x) |-> FSub(F(1), x[c])]
        cp == CumProd(x_not)
        lag == <<F(1)>> \o SubSeq(cp, 1, Len(x) - 1)
    IN  [c \in 1..Len(x) |-> FMul(original[c], FAdd(lag[c], x[c]))]

\* one row of first_one
first_one_row(original) ==
    LET x == [c \in 1..Len(original) |->
                IF FGreater(original[c], F(0)) THEN F(1) ELSE F(0)]
        x_not == [c \in 1..Len(x) |-> FSub(F(1), x[c])]
        cp == CumProd(x_not)
        sum_x == [c \in 1..Len(x) |-> FMinimum(cp[c], F(1))]
        lag == <<F(1)>> \o SubSeq(sum_x, 1, Len(x) - 1)
    IN  [c \in 1..Len(x) |-> FMul(original[c], FMul(lag[c], x[c]))]

first_one(x) == [j \in 1..Len(x) |-> first_one_row(x[j])]

scale(x) ==
    LET xmin == MinSeq(x)
        xmax == MaxSeq(x)
        a == FDiv(F(2), FSub(xmax, xmin))
        b == FSub(F(1), FMul(a, xmax))
    IN  [j \in 1..Len(x) |-> FAdd(FMul(a, x[j]), b)]

\* advance(S) with the draw dB = sqrt(dt) * random_normal made explicit
advance(Sv, dB, rr, sig, dt) ==
    [j \in 1..Len(Sv) |->
        FAdd(FAdd(Sv[j], FMul(FMul(rr, Sv[j]), dt)), FMul(FMul(sig, Sv[j]), dB[j]))]

\* ------------------------------------------------------------------- state
VARIABLES
    par,                 \* Spot, sigma, K, r, T, order, n, m of the parameter cell
    dt,                  \* dt = T / m
    S,                   \* S[i]: the n asset prices at date i (time i * dt)
    discount,            \* exp(-r * dt)
    cashflow,            \* cashflow[i], i in t_span
    value,               \* value[i]
    continuation_value,  \* continuation_value[i]
    t,                   \* the date the backward loop handles next
    scaled,              \* scale(S[t]) of the last backward step
    basis,               \* chebyshev_basis(...) of the last backward step
    payoff,              \* the n x m payoff matrix, column c holds date c + 1
    discounted_payoff,   \* discounted_payoff[i], i in range(m)
    price,
    pc,                  \* the statement the run is at
    error,               \* the exception that ended the run, "" if none
    uin,                 \* a direct call of an auxiliary function: its arguments
    uout,                \* ... its result
    uprev,               \* ... the result of the call before
    ucalled              \* ... the calls made

runVars == <<par, dt, S, discount, cashflow, value, continuation_value, t, scaled,
             basis, payoff, discounted_payoff, price, pc, error>>

callVars == <<uin, uout, uprev, ucalled>>

vars == <<runVars, callVars>>

None == <<>>

\* the dates of t_span = arange(dt, T + dt, dt): 1..m in units of dt
t_span == 1..par.m

\* ------------------------------------------------------------------ inputs
\* the draws sqrt(dt) * random_normal of one path and step
Normals == {F(-1), F(1)}

\* (Spot, sigma, K): an in-domain triple, zero volatility, then one parameter
\* out of domain at a time
Markets == {<<101, 2, 408>>, <<101, 0, 408>>, <<101, -2, 408>>, <<0, 2, 408>>, <<101, 2, 0>>}

\* The maturity is T = m, so that dt = 1 and sqrt(dt), r * dt are exact; m = 0
\* (with T = 1) is the step count for which dt = T / m cannot be computed.
Parameters ==
    {[Spot |-> F(mk[1]), sigma |-> F(mk[2]), K |-> F(mk[3]), r |-> F(1),
      T |-> IF mm = 0 THEN 1 ELSE mm, order |-> oo, n |-> nn, m |-> mm] :
        mk \in Markets, oo \in 1..MaxOrder, nn \in 1..MaxPaths, mm \in 0..MaxSteps}

ValidParameters ==
    /\ FGreater(par.Spot, F(0))
    /\ ~FLess(par.sigma, F(0))
    /\ FGreater(par.K, F(0))
    /\ par.T > 0
    /\ par.m >= 1
    /\ par.n >= 1

\* -------------------------------------------------------------- the pricing run
Init ==
    /\ par \in Parameters
    /\ dt = None
    /\ S = None
    /\ discount = None
    /\ cashflow = None
    /\ value = None
    /\ continuation_value = None
    /\ t = 0
    /\ scaled = None
    /\ basis = None
    /\ payoff = None
    /\ discounted_payoff = None
    /\ price = None
    /\ pc = "parameters"
    /\ error = ""
    /\ uin = None
    /\ uout = None
    /\ uprev = None
    /\ ucalled = None

\* dt = T / m: Python raises ZeroDivisionError for m = 0
SetParameters ==
    /\ pc = "parameters"
    /\ IF par.m = 0
       THEN /\ pc' = "failed"
            /\ error' = "ZeroDivisionError"
            /\ dt' = dt
       ELSE /\ pc' = "paths"
            /\ error' = error
            /\ dt' = FDiv(F(par.T), F(par.m))
    /\ UNCHANGED <<par, S, discount, cashflow, value, continuation_value, t, scaled,
                   basis, payoff, discounted_payoff, price, callVars>>

\* S = {0.: Spot * tf.ones(n)}
InitPaths ==
    /\ pc = "paths"
    /\ S' = (0 :> [j \in 1..par.n |-> FMul(par.Spot, F(1))])
    /\ pc' = "simulate"
    /\ UNCHANGED <<par, dt, discount, cashflow, value, continuation_value, t, scaled,
                   basis, payoff, discounted_payoff, price, error, callVars>>

\* one pass of "for t in t_span: S[t] = advance(S[t_previous])"
Advance ==
    /\ pc = "simulate"
    /\ LET tt == Cardinality(DOMAIN S)
       IN  /\ tt \in t_span
           /\ \E dB \in [1..par.n -> Normals] :
                S' = S @@ (tt :> advance(S[tt - 1], dB, par.r, par.sigma, dt))
           /\ pc' = IF tt = par.m THEN "cashflow" ELSE "simulate"
    /\ UNCHANGED <<par, dt, discount, cashflow, value, continuation_value, t, scaled,
                   basis, payoff, discounted_payoff, price, error, callVars>>

\* discount = tf.exp(-r * dt); cashflow = {t: tf.maximum(0., K - S[t]) for t in t_span}
Cashflows ==
    /\ pc = "cashflow"
    /\ discount' = Exp(FMul(FNeg(par.r), dt))
    /\ cashflow' = [i \in t_span |->
                      [j \in 1..par.n |-> FMaximum(F(0), FSub(par.K, S[i][j]))]]
    /\ pc' = "recursion"
    /\ UNCHANGED <<par, dt, S, value, continuation_value, t, scaled, basis, payoff,
                   discounted_payoff, price, error, callVars>>

\* value = {T: cashflow[T] * discount}; continuation_value = {T: tf.zeros(n)}
InitRecursion ==
    /\ pc = "recursion"
    /\ value' = (par.m :> [j \in 1..par.n |-> FMul(cashflow[par.m][j], discount)])
    /\ continuation_value' = (par.m :> Zeros(par.n))
    /\ t' = par.m - 1
    /\ pc' = "loop"
    /\ UNCHANGED <<par, dt, S, discount, cashflow, scaled, basis, payoff,
                   discounted_payoff, price, error, callVars>>

\* What the Cholesky solve inside lstsq does with a non-finite design matrix is
\* the library build's choice: it returns NaN or raises InvalidArgumentError.
LstsqOutcomes(X) == IF HasNaN(X) THEN {"nan", "raise"} ELSE {"ok"}

\* NextValue with the discount applied to the exercised cashflow alone
NextValueUndiscounted(disc, cash, cont, vnext) ==
    [j \in 1..Len(cash) |->
        IF FGreater(cash[j], cont[j]) THEN FMul(disc, cash[j]) ELSE vnext[j]]

\* NextValue carrying the fitted continuation value forward
NextValueFitted(disc, cash, cont, vnext) ==
    [j \in 1..Len(cash) |->
        FMul(disc, IF FGreater(cash[j], cont[j]) THEN cash[j] ELSE cont[j])]

\* value[t] = discount * tf.where(cashflow[t] > continuation_value[t], cashflow[t], value[t_next])
NextValue(disc, cash, cont, vnext) ==
    [j \in 1..Len(cash) |->
        FMul(disc, IF FGreater(cash[j], cont[j]) THEN cash[j] ELSE vnext[j])]

\* one pass of "for t in t_span[::-1][1:]"
BackwardStep ==
    /\ pc = "loop"
    /\ t >= 1
    /\ LET t_next == t + 1
           sc == scale(S[t])
           bs == chebyshev_basis(sc, par.order)
       IN  /\ scaled' = sc
           /\ basis' = bs
           /\ \E outcome \in LstsqOutcomes(bs) :
                IF outcome = "raise"
                THEN /\ pc' = "failed"
                     /\ error' = "InvalidArgumentError"
                     /\ UNCHANGED <<value, continuation_value, t>>
                ELSE LET \* the call passes no penalty: lam takes its default, 100
                         cont == ridge_regression(bs, value[t_next], 100)
                     IN  /\ continuation_value' = continuation_value @@ (t :> cont)
                         /\ value' = value @@
                                (t :> NextValue(discount, cashflow[t], cont, value[t_next]))
                         /\ t' = t - 1
                         /\ UNCHANGED <<pc, error>>
    /\ UNCHANGED <<par, dt, S, discount, cashflow, payoff, discounted_payoff, price,
                   callVars>>

\* payoff = {t: tf.where(continuation_value[t] > cashflow[t], tf.zeros(n), cashflow[t])}
RawPayoff(cont, cash) ==
    [j \in 1..Len(cash) |-> IF FGreater(cont[j], cash[j]) THEN F(0) ELSE cash[j]]

\* the payoff dictionary, stacked into the n x m matrix (paths x periods)
BuildPayoff ==
    /\ pc = "loop"
    /\ t < 1
    /\ LET raw == [i \in t_span |-> RawPayoff(continuation_value[i], cashflow[i])]
       IN  payoff' = [j \in 1..par.n |-> [c \in 1..par.m |-> raw[c][j]]]
    /\ pc' = "extract"
    /\ UNCHANGED <<par, dt, S, discount, cashflow, value, continuation_value, t, scaled,
                   basis, discounted_payoff, price, error, callVars>>

\* payoff = first_one(payoff)
Extract ==
    /\ pc = "extract"
    /\ payoff' = first_one(payoff)
    /\ pc' = "discounting"
    /\ UNCHANGED <<par, dt, S, discount, cashflow, value, continuation_value, t, scaled,
                   basis, discounted_payoff, price, error, callVars>>

\* the exponent of the factor applied to column i: tf.exp(-r * i * dt)
DiscountFactor(i) == Exp(FMul(FMul(FNeg(par.r), F(i)), dt))

\* discounted_payoff = {i: payoff[:, i] * tf.exp(-r * i * dt) for i in range(m)}
\* price = tf.reduce_mean(tf.add_n(list(discounted_payoff.values())))
PresentValue ==
    /\ pc = "discounting"
    /\ LET dp == [i \in 0..(par.m - 1) |->
                    [j \in 1..par.n |-> FMul(Col(payoff[j], i), DiscountFactor(i))]]
           total == [j \in 1..par.n |-> SumSeq([c \in 1..par.m |-> dp[c - 1][j]])]
       IN  /\ discounted_payoff' = dp
           /\ price' = FDiv(SumSeq(total), F(par.n))
    /\ pc' = "done"
    /\ UNCHANGED <<par, dt, S, discount, cashflow, value, continuation_value, t, scaled,
                   basis, payoff, error, callVars>>

Next ==
    \/ SetParameters
    \/ InitPaths
    \/ Advance
    \/ Cashflows
    \/ InitRecursion
    \/ BackwardStep
    \/ BuildPayoff
    \/ Extract
    \/ PresentValue

Spec == Init /\ [][Next]_vars

\* ------------------------------------------- direct calls of the auxiliary functions
BasisArguments == {F(-1), <<-1, 2>>, F(0), <<1, 2>>, F(1), F(2)}

PayoffEntries == {F(-1), F(0), F(1), F(2)}

BatchSizes == {1, 2}

DesignEntries == {F(-1), F(0), F(1)}

TargetEntries == {F(0), F(3)}

Penalties == {1, 100}

Calls ==
    {[fn |-> "chebyshev_basis", x |-> x, k |-> k] :
        x \in UNION {[1..l -> BasisArguments] : l \in BatchSizes}, k \in 1..(MaxOrder + 1)}
    \cup
    {[fn |-> "first_one", x |-> x] :
        x \in UNION {[1..b -> [1..c -> PayoffEntries]] : b \in BatchSizes, c \in 1..MaxCols}}
    \cup
    {[fn |-> "ridge_regression", X |-> X, Y |-> Y, lam |-> lam] :
        X \in [1..2 -> [1..2 -> DesignEntries]], Y \in [1..2 -> TargetEntries],
        lam \in Penalties}

InitCalls ==
    /\ uin \in Calls
    /\ uout = None
    /\ uprev = None
    /\ ucalled = <<>>
    /\ par = None
    /\ dt = None
    /\ S = None
    /\ discount = None
    /\ cashflow = None
    /\ value = None
    /\ continuation_value = None
    /\ t = 0
    /\ scaled = None
    /\ basis = None
    /\ payoff = None
    /\ discounted_payoff = None
    /\ price = None
    /\ pc = "call"
    /\ error = ""

CallChebyshevBasis ==
    /\ ucalled = <<>>
    /\ uin.fn = "chebyshev_basis"
    /\ uout' = chebyshev_basis(uin.x, uin.k)
    /\ ucalled' = <<"chebyshev_basis">>
    /\ UNCHANGED <<uin, uprev, runVars>>

CallRidgeRegression ==
    /\ ucalled = <<>>
    /\ uin.fn = "ridge_regression"
    /\ uout' = ridge_regression(uin.X, uin.Y, uin.lam)
    /\ ucalled' = <<"ridge_regression">>
    /\ UNCHANGED <<uin, uprev, runVars>>

CallFirstOne ==
    /\ ucalled = <<>>
    /\ uin.fn = "first_one"
    /\ uout' = first_one(uin.x)
    /\ ucalled' = <<"first_one">>
    /\ UNCHANGED <<uin, uprev, runVars>>

\* the extractor run on its own output
CallFirstOneAgain ==
    /\ ucalled = <<"first_one">>
    /\ uprev' = uout
    /\ uout' = first_one(uout)
    /\ ucalled' = <<"first_one", "first_one">>
    /\ UNCHANGED <<uin, runVars>>

NextCalls ==
    \/ CallChebyshevBasis
    \/ CallRidgeRegression
    \/ CallFirstOne
    \/ CallFirstOneAgain

SpecCalls == InitCalls /\ [][NextCalls]_vars

\* ------------------------------------------------------------------ properties
RECURSIVE FPow(_, _)
FPow(x, k) == IF k = 0 THEN F(1) ELSE FMul(x, FPow(x, k - 1))

Positive(x) == FGreater(x, F(0))

\* the first column of a row holding a positive value, 0 if there is none
FirstPositive(row) ==
    IF \E c \in 1..Len(row) : Positive(row[c])
    THEN CHOOSE c \in 1..Len(row) :
            Positive(row[c]) /\ \A b \in 1..(c - 1) : ~Positive(row[b])
    ELSE 0

\* the argument of the last call of first_one
ExtractorInput == IF Len(ucalled) = 2 THEN uprev ELSE uin.x

\* C1: when a run with in-domain parameters is done, the payoff a path keeps at date i (column i - 1 of
\* the extracted matrix) enters the price discounted by exp(-r * i * dt), and
\* the price is the mean over the paths of these terms.
C1_DiscountMatchesExerciseDate ==
    (pc = "done" /\ ValidParameters) =>
        /\ \A j \in 1..par.n : \A i \in t_span :
              discounted_payoff[i - 1][j] = FMul(payoff[j][i], DiscountFactor(i))
        /\ price = FDiv(SumSeq([j \in 1..par.n |->
                      SumSeq([i \in 1..par.m |-> FMul(payoff[j][i], DiscountFactor(i))])]),
                      F(par.n))

\* C2: first_one keeps, in every row of any matrix of finite payoffs (of either
\* sign, whether or not the induction produced it), the input value at
\* the earliest column holding a positive value and returns zero everywhere
\* else; a row without a positive value comes back all zero.
C2_FirstOneKeepsEarliestPositive ==
    (ucalled # <<>> /\ ucalled[1] = "first_one") =>
        \A j \in 1..Len(ExtractorInput) :
            LET row == ExtractorInput[j]
                fp == FirstPositive(row)
            IN  /\ Len(uout[j]) = Len(row)
                /\ \A c \in 1..Len(row) :
                      uout[j][c] = IF c = fp THEN row[c] ELSE F(0)
                /\ Cardinality({c \in 1..Len(row) : uout[j][c] # F(0)}) <= 1

\* a row with a negative and two different positive values went through first_one
C2_Witness ==
    /\ ucalled = <<"first_one">>
    /\ \E j \in 1..Len(uin.x) : \E a, b, c \in 1..Len(uin.x[j]) :
          /\ a < b /\ b < c
          /\ FLess(uin.x[j][a], F(0))
          /\ Positive(uin.x[j][b]) /\ Positive(uin.x[j][c])
          /\ uin.x[j][b] # uin.x[j][c]
          /\ uout[j][b] = uin.x[j][b]
          /\ uout[j][c] = F(0)

\* C3: first_one applied to its own result returns that result unchanged.
C3_FirstOneIdempotent ==
    ucalled = <<"first_one", "first_one">> => uout = uprev

\* the first run changed the matrix, the second was made
C3_Witness ==
    /\ ucalled = <<"first_one", "first_one">>
    /\ uprev # uin.x
    /\ \E j \in 1..Len(uprev) : \E c \in 1..Len(uprev[j]) : Positive(uprev[j][c])

\* the date whose cross-section the last backward step scaled
ScaledDate == IF pc = "failed" THEN t ELSE t + 1

Degenerate(x) == MinSeq(x) = MaxSeq(x)

\* C4: once a backward step of a run with in-domain parameters has scaled a cross-section with min = max, the run
\* has failed with DegenerateInput, has no price, and neither the scaled vector
\* nor the basis holds an infinite or NaN entry.
C4_DegenerateScalingRaises ==
    (ValidParameters /\ scaled # None /\ Degenerate(S[ScaledDate])) =>
        /\ pc = "failed"
        /\ error = "DegenerateInput"
        /\ price = None
        /\ \A j \in 1..Len(scaled) : IsFin(scaled[j])
        /\ ~HasNaN(basis)

\* C5: a run with a parameter out of domain creates no path, returns no price
\* and, once past the parameter cell, has failed with InvalidParameter.
C5_InvalidParameterFailsFast ==
    ~ValidParameters =>
        /\ S = None
        /\ price = None
        /\ pc \in {"parameters", "failed"}
        /\ (pc = "failed" => error = "InvalidParameter")

\* C6: ridge_regression(X, Y, lam) returns the fitted values X z of the
\* minimiser z of ||X z - Y||^2 + lam ||z||^2 for the lam the caller passed.
C6_RidgePenaltyIsTheArgument ==
    ucalled = <<"ridge_regression">> =>
        uout = MatVec(uin.X, lstsq(uin.X, uin.Y, uin.lam))

\* C7: chebyshev_basis(x, p) has exactly p columns; column 0 is all ones,
\* column 1 is x and column c >= 2 is 2 * x * column(c-1) - column(c-2).
C7_ChebyshevBasisColumns ==
    ucalled = <<"chebyshev_basis">> =>
        \A j \in 1..Len(uin.x) :
            /\ Len(uout[j]) = uin.k
            /\ \A c \in 0..(uin.k - 1) :
                  Col(uout[j], c) =
                      IF c = 0 THEN F(1)
                      ELSE IF c = 1 THEN uin.x[j]
                      ELSE FSub(FMul(FMul(F(2), uin.x[j]), Col(uout[j], c - 1)),
                                Col(uout[j], c - 2))

\* C8: the recursion first defines Value[m] = discount * Cashflow[m] and
\* Continuation[m] = 0; every later change of Value adds exactly the date i just
\* below the dates already defined, 1 <= i <= m - 1, with Value[i] =
\* discount * Cashflow[i] where Cashflow[i] > Continuation[i] and
\* discount * Value[i+1] elsewhere, and leaves the dates above i untouched; the
\* payoff is built only when the dates 1..m are all defined.
C8_BackwardOrder ==
    [][/\ value' # value =>
            \/ /\ value = None
               /\ DOMAIN value' = {par.m}
               /\ DOMAIN continuation_value' = {par.m}
               /\ \A j \in 1..par.n :
                     /\ value'[par.m][j] = FMul(discount, cashflow[par.m][j])
                     /\ continuation_value'[par.m][j] = F(0)
            \/ \E i \in 1..(par.m - 1) :
                  /\ DOMAIN value = (i + 1)..par.m
                  /\ DOMAIN value' = i..par.m
                  /\ DOMAIN continuation_value' = i..par.m
                  /\ \A j \in 1..par.n :
                        value'[i][j] =
                            IF FGreater(cashflow[i][j], continuation_value'[i][j])
                            THEN FMul(discount, cashflow[i][j])
                            ELSE FMul(discount, value[i + 1][j])
                  /\ \A k \in (i + 1)..par.m :
                        /\ value'[k] = value[k]
                        /\ continuation_value'[k] = continuation_value[k]
       /\ pc' = "extract" => DOMAIN value = 1..par.m /\ 0 \notin DOMAIN value
      ]_vars

\* three dates done in a run with in-domain parameters: at date 1 one path exercised and another carried a
\* nonzero value forward
C8_Witness ==
    /\ pc = "loop"
    /\ ValidParameters
    /\ t = 0
    /\ par.m = 3
    /\ \E j, k \in 1..par.n :
          /\ FGreater(cashflow[1][j], continuation_value[1][j])
          /\ ~FGreater(cashflow[1][k], continuation_value[1][k])
          /\ Positive(value[1][k])

FiniteContinuation ==
    \A i \in DOMAIN continuation_value : \A j \in 1..par.n :
        IsFin(continuation_value[i][j])

StopDate(i, j) ==
    LET ex == {k \in i..(par.m - 1) :
                 FGreater(cashflow[k][j], continuation_value[k][j])}
    IN  IF ex = {} THEN par.m ELSE CHOOSE k \in ex : \A l \in ex : k <= l

\* C10: every defined Value[i] of every path is the cashflow of that path at
\* its stop date tau >= i, discounted tau - i + 1 times, and is not negative.
C10_ValueIsDiscountedCashflow ==
    \A i \in DOMAIN value : \A j \in 1..par.n :
        /\ value[i][j] =
              FMul(FPow(discount, StopDate(i, j) - i + 1), cashflow[StopDate(i, j)][j])
        /\ ~FLess(value[i][j], F(0))

\* three dates with finite continuation values throughout: one path exercised
\* at date 1, another with a positive cashflow at date 1 held on, on the
\* regression's advice, and its value is the later cashflow discounted
C10_Witness ==
    /\ pc = "done"
    /\ ValidParameters
    /\ par.m = 3
    /\ FiniteContinuation
    /\ \E j, k \in 1..par.n :
          /\ Positive(cashflow[1][j])
          /\ StopDate(1, j) > 1
          /\ Positive(value[1][j])
          /\ StopDate(1, k) = 1

====
